---------------------------- MODULE Spec2Model ----------------------------
(***************************************************************************)
(* A model of exif_injector.py: the per-asset reconciliation of embedded   *)
(* tags with the Google Takeout sidecar (validators, extractors,           *)
(* comparators, conflict detector, decision, write-plan builders) and the  *)
(* main loop that calls process_file on every media file.                  *)
(*                                                                         *)
(* Representation of values:                                               *)
(*  - A Unix time is a pair [d, s]: d whole days since the epoch and s      *)
(*    seconds of that day (0 <= s < 86400). 4102444800 = 47482 days does   *)
(*    not fit TLC's integers, the pair does.                                *)
(*  - A coordinate is an integer count of 1/90000 degree, so that both     *)
(*    0.0001 degree (9 units) and 0.04 arc second (1 unit) are exact.       *)
(*  - A text is a sequence of one-character strings.                        *)
(*  - A Python exception is the result "raise" of the operator that        *)
(*    models the raising function.                                          *)
(***************************************************************************)
EXTENDS Integers, Sequences, FiniteSets, TLC

(***************************************************************************)
(* Constants of the program                                                *)
(***************************************************************************)
PHOTO_EXTENSIONS == {".heic", ".jpg", ".jpeg"}
VIDEO_EXTENSIONS == {".mov", ".mp4", ".3gp"}
IMAGE_EXTENSIONS == {".png", ".gif", ".webp"}
SKIP_EXTENSIONS == {".cr2", ".dng", ".lrv"}
ALL_MEDIA_EXTENSIONS == PHOTO_EXTENSIONS \cup VIDEO_EXTENSIONS \cup IMAGE_EXTENSIONS

EXIF_DATE_FIELDS(file_type) ==
    CASE file_type = "photo" -> <<"DateTimeOriginal", "CreateDate">>
      [] file_type = "video" -> <<"CreateDate", "MediaCreateDate", "TrackCreateDate">>
      [] file_type = "image" -> <<"DateCreated", "XMP:DateCreated">>
      [] OTHER -> <<>>

DATE_TOLERANCE_SECONDS == 25 * 3600

\* 4102444800 seconds = TS_LIMIT_DAYS days of 86400 seconds (2100-01-01)
TS_LIMIT_DAYS == 47482

SecondsPerDay == 24 * 3600

\* one degree, in coordinate units
Deg == 90 * 1000

(***************************************************************************)
(* Wide integers (Unix times) as [d, s]                                    *)
(***************************************************************************)
W(d, s) == [d |-> d, s |-> s]

WLess(a, b) == a.d < b.d \/ (a.d = b.d /\ a.s < b.s)

Abs(x) == IF x < 0 THEN -x ELSE x

\* the difference compared with < instead of <=
WAbsDiffBelow(a, b, tol) ==
    LET dd == a.d - b.d
    IN  IF dd > 2 \/ dd < -2 THEN FALSE
        ELSE Abs(dd * SecondsPerDay + (a.s - b.s)) < tol

\* abs(a - b) <= tol seconds, for tol < 2 days: three or more days apart is
\* more than tol, and below that the difference fits an integer
WAbsDiffAtMost(a, b, tol) ==
    LET dd == a.d - b.d
    IN  IF dd > 2 \/ dd < -2 THEN FALSE
        ELSE Abs(dd * SecondsPerDay + (a.s - b.s)) <= tol

(***************************************************************************)
(* JSON values of the sidecar                                              *)
(***************************************************************************)
\* photoTakenTime.timestamp: absent/null, an integer (also true and false,
\* which int() reads as 1 and 0), a float (d,s its floor and f the tenths
\* above it), an infinite float, NaN, a text holding an integer literal, any
\* other text, or a value of another type (list, object)
JNone == [t |-> "none", d |-> 0, s |-> 0, f |-> 0]
JInt(d, s) == [t |-> "int", d |-> d, s |-> s, f |-> 0]
JFloat(d, s, f) == [t |-> "float", d |-> d, s |-> s, f |-> f]
JStr(d, s) == [t |-> "str", d |-> d, s |-> s, f |-> 0]
JBadStr == [t |-> "badstr", d |-> 0, s |-> 0, f |-> 0]
JOther == [t |-> "other", d |-> 0, s |-> 0, f |-> 0]
JInf == [t |-> "inf", d |-> 0, s |-> 0, f |-> 0]
JNan == [t |-> "nan", d |-> 0, s |-> 0, f |-> 0]

\* a coordinate or altitude: a number, null, or a text
CNum(v) == [t |-> "num", v |-> v]
CNull == [t |-> "null", v |-> 0]
CStr == [t |-> "str", v |-> 0]
\* a key the document does not hold
Missing == [t |-> "missing", v |-> 0]

\* Python truthiness of a timestamp value
TruthyTs(ts) ==
    CASE ts.t = "none" -> FALSE
      [] ts.t = "int" -> ~(ts.d = 0 /\ ts.s = 0)
      [] ts.t = "float" -> ~(ts.d = 0 /\ ts.s = 0 /\ ts.f = 0)
      [] OTHER -> TRUE

\* the instant one second after w
WSucc(w) == IF w.s + 1 = SecondsPerDay THEN W(w.d + 1, 0) ELSE W(w.d, w.s + 1)

\* int(timestamp): the integer (a float truncates towards zero), "raise"
\* for what int() rejects with ValueError or TypeError, or "overflow"
\* (OverflowError) for an infinite float
IntOf(ts) ==
    CASE ts.t \in {"int", "str"} -> [r |-> "ok", w |-> W(ts.d, ts.s)]
      [] ts.t = "float" ->
            [r |-> "ok", w |-> IF ts.d < 0 /\ ts.f # 0 THEN WSucc(W(ts.d, ts.s)) ELSE W(ts.d, ts.s)]
      [] ts.t = "inf" -> [r |-> "overflow", w |-> W(0, 0)]
      [] OTHER -> [r |-> "raise", w |-> W(0, 0)]

\* the OverflowError of int() is none of the exceptions validate_timestamp
\* catches: it leaves validate_timestamp
validate_timestamp_overflows(timestamp) ==
    timestamp.t # "none" /\ IntOf(timestamp).r = "overflow"

\* the value validate_timestamp returns (False where int() overflows, for
\* the callers that are only reached when it does not)
\* validate_timestamp with the limit itself accepted
validate_timestamp_through_limit(timestamp) ==
    IF timestamp.t = "none" THEN FALSE
    ELSE LET i == IntOf(timestamp)
         IN  IF i.r # "ok" THEN FALSE
             ELSE WLess(W(0, 0), i.w) /\ ~WLess(W(TS_LIMIT_DAYS, 0), i.w)

validate_timestamp(timestamp) ==
    IF timestamp.t = "none" THEN FALSE
    ELSE LET i == IntOf(timestamp)
         IN  IF i.r # "ok" THEN FALSE
             ELSE WLess(W(0, 0), i.w) /\ WLess(i.w, W(TS_LIMIT_DAYS, 0))

\* validate_gps(lat, lon): "True", "False", or "raise" (TypeError) when an
\* ordering comparison reaches a value that is not a number
IsZero(c) == c.t = "num" /\ c.v = 0

validate_gps(lat, lon) ==
    IF IsZero(lat) /\ IsZero(lon) THEN "False"
    ELSE IF lat.t # "num" THEN "raise"
    ELSE IF ~(-90 * Deg <= lat.v /\ lat.v <= 90 * Deg) THEN "False"
    ELSE IF lon.t # "num" THEN "raise"
    ELSE IF -180 * Deg <= lon.v /\ lon.v <= 180 * Deg THEN "True" ELSE "False"

(***************************************************************************)
(* Calendar: unix_to_exif_date and strptime                                *)
(***************************************************************************)
Civil(Y, M, D, h, m, s) == [Y |-> Y, M |-> M, D |-> D, h |-> h, m |-> m, s |-> s]

IsLeap(y) == (y % 4 = 0 /\ y % 100 # 0) \/ y % 400 = 0

DaysInMonth(y, m) ==
    CASE m \in {1, 3, 5, 7, 8, 10, 12} -> 31
      [] m \in {4, 6, 9, 11} -> 30
      [] OTHER -> IF IsLeap(y) THEN 29 ELSE 28

\* the proleptic Gregorian date of day number z - 719468 (days since the epoch)
CivilFromDays(days) ==
    LET z == days + 719468
        era == z \div 146097
        doe == z - era * 146097
        yoe == (doe - doe \div 1460 + doe \div 36524 - doe \div 146096) \div 365
        doy == doe - (365 * yoe + yoe \div 4 - yoe \div 100)
        mp == (5 * doy + 2) \div 153
        dd == doy - (153 * mp + 2) \div 5 + 1
        mm == IF mp < 10 THEN mp + 3 ELSE mp - 9
        yy == yoe + era * 400 + (IF mm <= 2 THEN 1 ELSE 0)
    IN  [Y |-> yy, M |-> mm, D |-> dd]

DaysFromCivil(Y, M, D) ==
    LET y == IF M <= 2 THEN Y - 1 ELSE Y
        era == y \div 400
        yoe == y - era * 400
        mp == IF M > 2 THEN M - 3 ELSE M + 9
        doy == (153 * mp + 2) \div 5 + D - 1
        doe == yoe * 365 + yoe \div 4 - yoe \div 100 + doy
    IN  era * 146097 + doe - 719468

\* datetime.fromtimestamp(int(timestamp), tz=utc).strftime('%Y:%m:%d %H:%M:%S')
unix_to_exif_date(timestamp) ==
    LET w == IntOf(timestamp).w
        c == CivilFromDays(w.d)
    IN  Civil(c.Y, c.M, c.D, w.s \div 3600, (w.s % 3600) \div 60, w.s % 60)

(***************************************************************************)
(* Values of the embedded tags                                             *)
(***************************************************************************)
ZeroCivil == Civil(0, 0, 0, 0, 0, 0)

\* a date tag: absent, the empty text, a text whose first 19 characters read
\* "YYYY:MM:DD HH:MM:SS" in digits (tail: more text follows them), another
\* text, or a number
XAbsent == [t |-> "absent", c |-> ZeroCivil, tail |-> FALSE]
XEmpty == [t |-> "empty", c |-> ZeroCivil, tail |-> FALSE]
XDate(c) == [t |-> "date", c |-> c, tail |-> FALSE]
XDateTail(c) == [t |-> "date", c |-> c, tail |-> TRUE]
XGarbage == [t |-> "garbage", c |-> ZeroCivil, tail |-> FALSE]
XNum == [t |-> "num", c |-> ZeroCivil, tail |-> FALSE]

TruthyTag(x) == x.t \notin {"absent", "empty"}

\* exif_date[:19]: "raise" (TypeError) for a number
Slice19(x) ==
    IF x.t = "num" THEN [r |-> "raise", x |-> x]
    ELSE [r |-> "ok", x |-> [x EXCEPT !.tail = FALSE]]

\* datetime.strptime(text, '%Y:%m:%d %H:%M:%S').replace(tzinfo=utc):
\* "raise" (ValueError) or the instant
Strptime(x) ==
    LET c == x.c
        ok == /\ x.t = "date" /\ ~x.tail
              /\ c.Y >= 1 /\ c.Y <= 9999
              /\ c.M >= 1 /\ c.M <= 12
              /\ c.D >= 1 /\ c.D <= DaysInMonth(c.Y, c.M)
              /\ c.h <= 23 /\ c.m <= 59 /\ c.s <= 59
    IN  IF ok
        THEN [r |-> "ok", w |-> W(DaysFromCivil(c.Y, c.M, c.D), c.h * 3600 + c.m * 60 + c.s)]
        ELSE [r |-> "raise", w |-> W(0, 0)]

\* a GPS tag: absent, a number, a text "D deg M' S" H" (sec in 1/25 arc
\* second), a text the pattern matches whose seconds float() rejects
\* ("1.2.3"), or a text the pattern does not match
GAbsent == [t |-> "absent", v |-> 0, deg |-> 0, min |-> 0, sec |-> 0, dir |-> "N"]
GNum(v) == [t |-> "num", v |-> v, deg |-> 0, min |-> 0, sec |-> 0, dir |-> "N"]
GDms(deg, min, sec, dir) == [t |-> "dms", v |-> 0, deg |-> deg, min |-> min, sec |-> sec, dir |-> dir]
GDmsBadSec == [t |-> "dmsbadsec", v |-> 0, deg |-> 0, min |-> 0, sec |-> 0, dir |-> "N"]
GBadStr == [t |-> "badstr", v |-> 0, deg |-> 0, min |-> 0, sec |-> 0, dir |-> "N"]

TruthyGps(g) == ~(g.t = "absent" \/ (g.t = "num" /\ g.v = 0))

\* "ok" with the decimal value (0.0 when the pattern does not match), or
\* "raise" (ValueError of float(sec))
dms_to_decimal(dms_str) ==
    IF dms_str.t \notin {"dms", "dmsbadsec"} THEN [r |-> "ok", v |-> 0]
    ELSE IF dms_str.t = "dmsbadsec" THEN [r |-> "raise", v |-> 0]
    ELSE LET decimal == dms_str.deg * Deg + dms_str.min * (Deg \div 60) + dms_str.sec
         IN  [r |-> "ok", v |-> IF dms_str.dir \in {"S", "W"} THEN -decimal ELSE decimal]

(***************************************************************************)
(* Texts                                                                   *)
(***************************************************************************)
Whitespace == {" ", "\t", "\n"}

\* str.strip(): what lies between the first and the last character that is
\* no whitespace
Strip(txt) ==
    LET solid == {i \in 1..Len(txt) : txt[i] \notin Whitespace}
        first == CHOOSE i \in solid : \A j \in solid : i <= j
        last == CHOOSE i \in solid : \A j \in solid : j <= i
    IN  IF solid = {} THEN <<>> ELSE SubSeq(txt, first, last)

HasName(p) == p.name # ""

\* [p.get('name', '') for p in people if p.get('name')]
Names(people) ==
    LET named == SelectSeq(people, HasName)
    IN  [i \in 1..Len(named) |-> named[i].name]

\* ','.join(names): the names with a "," between neighbours
Join(names) ==
    IF names = <<>> THEN <<>>
    ELSE [i \in 1..(2 * Len(names) - 1) |-> IF i % 2 = 1 THEN names[(i + 1) \div 2] ELSE ","]

(***************************************************************************)
(* The sidecar: parse_json_metadata                                        *)
(***************************************************************************)
\* A sidecar document is [top, timestamp, latitude, longitude, altitude,
\* people, favorited, description]: top is "object", "array" (valid JSON
\* whose top level is no object), "invalid" (JSONDecodeError) or
\* "unreadable" (IOError); a key the document lacks is JNone (timestamp)
\* or Missing (geoData numbers).
Default0(c) == IF c.t = "missing" THEN CNum(0) ELSE c

\* parse_json_metadata without IOError in its except clause
parse_json_metadata_uncaught_io(doc) ==
    LET data == [timestamp |-> doc.timestamp,
                 latitude |-> Default0(doc.latitude),
                 longitude |-> Default0(doc.longitude),
                 altitude |-> Default0(doc.altitude),
                 people |-> doc.people,
                 favorited |-> doc.favorited,
                 description |-> doc.description]
    IN  CASE doc.top = "object" -> [r |-> "ok", data |-> data]
          [] doc.top \in {"array", "unreadable"} -> [r |-> "raise", data |-> data]
          [] OTHER -> [r |-> "none", data |-> data]

\* "ok" with the dictionary, "none" (the caught errors), or "raise"
\* (AttributeError of data.get on a list)
parse_json_metadata(doc) ==
    LET data == [timestamp |-> doc.timestamp,
                 latitude |-> Default0(doc.latitude),
                 longitude |-> Default0(doc.longitude),
                 altitude |-> Default0(doc.altitude),
                 people |-> doc.people,
                 favorited |-> doc.favorited,
                 description |-> doc.description]
    IN  CASE doc.top = "object" -> [r |-> "ok", data |-> data]
          [] doc.top = "array" -> [r |-> "raise", data |-> data]
          [] OTHER -> [r |-> "none", data |-> data]

(***************************************************************************)
(* The embedded tags: extract_exif, parse_exif_date, parse_exif_gps        *)
(***************************************************************************)
\* the tags extract_exif asks exiftool for
RequestedTags == {"DateTimeOriginal", "CreateDate", "MediaCreateDate",
                  "GPSLatitude", "GPSLongitude", "GPSPosition"}

\* a dictionary of date tags: a function from the names it holds
NoDates == [n \in {} |-> XAbsent]

Restrict(f, keys) == [n \in DOMAIN f \cap keys |-> f[n]]

\* exif_data is [ok, dates, lat, lon]: ok is FALSE for the empty dictionary
\* (exiftool failed, timed out or printed no record); otherwise the
\* dictionary holds SourceFile and the requested tags the file has.
extract_exif(tags, exiftool_ok) ==
    IF exiftool_ok
    THEN [ok |-> TRUE,
          dates |-> Restrict(tags.dates, RequestedTags),
          lat |-> IF "GPSLatitude" \in RequestedTags THEN tags.lat ELSE GAbsent,
          lon |-> IF "GPSLongitude" \in RequestedTags THEN tags.lon ELSE GAbsent]
    ELSE [ok |-> FALSE, dates |-> NoDates, lat |-> GAbsent, lon |-> GAbsent]

\* the first field of the kind's list that the dictionary holds with a
\* truthy value, or None (XAbsent)
parse_exif_date(exif_data, file_type) ==
    LET fields == EXIF_DATE_FIELDS(file_type)
        hits == {i \in 1..Len(fields) :
                    fields[i] \in DOMAIN exif_data.dates /\ TruthyTag(exif_data.dates[fields[i]])}
    IN  IF hits = {} THEN XAbsent
        ELSE exif_data.dates[fields[CHOOSE i \in hits : \A j \in hits : i <= j]]

NoGps == [has |-> FALSE, lat |-> 0, lon |-> 0]

\* the decimal of one component: a text goes through dms_to_decimal
GpsComponent(g) == IF g.t = "num" THEN [r |-> "ok", v |-> g.v] ELSE dms_to_decimal(g)

\* (lat, lon) or None; the bare except turns any exception into None
parse_exif_gps(exif_data) ==
    LET lat == exif_data.lat
        lon == exif_data.lon
    IN  IF TruthyGps(lat) /\ TruthyGps(lon)
        THEN IF GpsComponent(lat).r = "raise" \/ GpsComponent(lon).r = "raise"
             THEN NoGps
             ELSE [has |-> TRUE, lat |-> GpsComponent(lat).v, lon |-> GpsComponent(lon).v]
        ELSE NoGps

(***************************************************************************)
(* Comparators and the conflict detector                                   *)
(***************************************************************************)
\* a status, or "raise": int() of a text that is no integer (ValueError,
\* outside the try) or the slice of a number (TypeError, not caught)
compare_dates(exif_date, json_timestamp) ==
    IF ~TruthyTag(exif_date) /\ ~TruthyTs(json_timestamp) THEN "both_missing"
    ELSE IF ~TruthyTag(exif_date) THEN "exif_missing"
    ELSE IF ~TruthyTs(json_timestamp) THEN "json_missing"
    ELSE IF IntOf(json_timestamp).r # "ok" THEN "raise"
    ELSE IF Slice19(exif_date).r = "raise" THEN "raise"
    ELSE LET exif_dt == Strptime(Slice19(exif_date).x)
             json_dt == IntOf(json_timestamp).w
         IN  IF exif_dt.r = "raise" THEN "different"
             ELSE IF WAbsDiffAtMost(exif_dt.w, json_dt, DATE_TOLERANCE_SECONDS)
                  THEN "equal" ELSE "different"

\* 0.0001 degree
GpsTolerance == Deg \div 10000

compare_gps(exif_gps, json_lat, json_lon) ==
    LET json_has_gps == validate_gps(json_lat, json_lon)
        exif_has_gps == exif_gps.has
    IN  IF json_has_gps = "raise" THEN "raise"
        ELSE IF ~exif_has_gps /\ json_has_gps = "False" THEN "both_missing"
        ELSE IF ~exif_has_gps THEN "exif_missing"
        ELSE IF json_has_gps = "False" THEN "json_missing"
        ELSE IF Abs(exif_gps.lat - json_lat.v) < GpsTolerance
                /\ Abs(exif_gps.lon - json_lon.v) < GpsTolerance
             THEN "equal" ELSE "different"

\* detect_conflicts without its GPS check: only a date difference is reported
detect_conflicts_dates_only(exif_data, json_data, file_type) ==
    LET exif_date == parse_exif_date(exif_data, file_type)
        json_timestamp == json_data.timestamp
        date_status == IF validate_timestamp(json_timestamp)
                       THEN compare_dates(exif_date, json_timestamp)
                       ELSE "not_compared"
        date_conflict == IF date_status = "different" THEN <<[field |-> "Date"]>> ELSE <<>>
    IN  IF date_status = "raise"
        THEN [r |-> "raise", conflicts |-> <<>>]
        ELSE [r |-> "ok", conflicts |-> date_conflict]

\* [r, conflicts]: r is "raise" when a comparator raised; a conflict is kept
\* as its field name (its two values are the arguments, and only logged)
detect_conflicts(exif_data, json_data, file_type) ==
    LET exif_date == parse_exif_date(exif_data, file_type)
        json_timestamp == json_data.timestamp
        date_status == IF validate_timestamp(json_timestamp)
                       THEN compare_dates(exif_date, json_timestamp)
                       ELSE "not_compared"
        exif_gps == parse_exif_gps(exif_data)
        gps_status == compare_gps(exif_gps, json_data.latitude, json_data.longitude)
        date_conflict == IF date_status = "different" THEN <<[field |-> "Date"]>> ELSE <<>>
        gps_conflict == IF gps_status = "different" THEN <<[field |-> "GPS"]>> ELSE <<>>
    IN  IF date_status = "raise" \/ gps_status = "raise"
        THEN [r |-> "raise", conflicts |-> <<>>]
        ELSE [r |-> "ok", conflicts |-> date_conflict \o gps_conflict]

(***************************************************************************)
(* Write plans: the exiftool command per media kind                        *)
(***************************************************************************)
\* One argument of the command: -tag=value, the value being numbers (n), in
\* the order they are formatted, and pieces of text (s)
Arg(tag, n, s) == [tag |-> tag, n |-> n, s |-> s]

DateValue(c) == <<c.Y, c.M, c.D, c.h, c.m, c.s>>

CmdHead == <<Arg("exiftool", <<>>, <<>>), Arg("-overwrite_original", <<>>, <<>>)>>

CmdPath == <<Arg("filepath", <<>>, <<>>)>>

\* the assignments of a command: what lies between its head and the path
Plan(cmd) == SubSeq(cmd, Len(CmdHead) + 1, Len(cmd) - 1)

PhotoDate(json_data) ==
    IF validate_timestamp(json_data.timestamp)
    THEN LET date_str == DateValue(unix_to_exif_date(json_data.timestamp))
         IN  <<Arg("DateTimeOriginal", date_str, <<>>), Arg("CreateDate", date_str, <<>>)>>
    ELSE <<>>

\* the GPS block without abs(): signed values next to the references
PhotoGpsSigned(json_data) ==
    LET lat == json_data.latitude
        lon == json_data.longitude
        alt == json_data.altitude
    IN  IF validate_gps(lat, lon) = "True"
        THEN <<Arg("GPSLatitude", <<lat.v>>, <<>>),
               Arg("GPSLatitudeRef", <<>>, <<IF lat.v < 0 THEN "South" ELSE "North">>),
               Arg("GPSLongitude", <<lon.v>>, <<>>),
               Arg("GPSLongitudeRef", <<>>, <<IF lon.v < 0 THEN "West" ELSE "East">>),
               Arg("GPSAltitude", <<alt.v>>, <<>>),
               Arg("GPSAltitudeRef", <<>>, <<"Above Sea Level">>)>>
        ELSE <<>>

PhotoGps(json_data) ==
    LET lat == json_data.latitude
        lon == json_data.longitude
        alt == json_data.altitude
    IN  IF validate_gps(lat, lon) = "True"
        THEN <<Arg("GPSLatitude", <<Abs(lat.v)>>, <<>>),
               Arg("GPSLatitudeRef", <<>>, <<IF lat.v < 0 THEN "South" ELSE "North">>),
               Arg("GPSLongitude", <<Abs(lon.v)>>, <<>>),
               Arg("GPSLongitudeRef", <<>>, <<IF lon.v < 0 THEN "West" ELSE "East">>),
               Arg("GPSAltitude", <<Abs(alt.v)>>, <<>>),
               Arg("GPSAltitudeRef", <<>>, <<"Above Sea Level">>)>>
        ELSE <<>>

PhotoPeople(json_data) ==
    IF json_data.people # <<>> /\ Names(json_data.people) # <<>>
    THEN <<Arg("IPTC:Keywords", <<>>, Join(Names(json_data.people)))>>
    ELSE <<>>

PhotoRating(json_data) ==
    IF json_data.favorited THEN <<Arg("XMP:Rating", <<5>>, <<>>)>> ELSE <<>>

Description(tag, json_data) ==
    LET desc == Strip(json_data.description)
    IN  IF desc # <<>> THEN <<Arg(tag, <<>>, desc)>> ELSE <<>>

\* [r, cmd]: r is "raise" when validate_gps raises, or abs(alt) does
\* (TypeError: the altitude is no number)
build_exiftool_cmd_photo(json_data) ==
    LET gps_ok == validate_gps(json_data.latitude, json_data.longitude)
    IN  IF gps_ok = "raise" \/ (gps_ok = "True" /\ json_data.altitude.t # "num")
        THEN [r |-> "raise", cmd |-> <<>>]
        ELSE [r |-> "ok",
              cmd |-> CmdHead \o PhotoDate(json_data) \o PhotoGps(json_data)
                      \o PhotoPeople(json_data) \o PhotoRating(json_data)
                      \o Description("IPTC:Caption-Abstract", json_data) \o CmdPath]

VideoDate(json_data) ==
    IF validate_timestamp(json_data.timestamp)
    THEN LET date_str == DateValue(unix_to_exif_date(json_data.timestamp))
         IN  <<Arg("CreateDate", date_str, <<>>),
               Arg("MediaCreateDate", date_str, <<>>),
               Arg("TrackCreateDate", date_str, <<>>)>>
    ELSE <<>>

VideoGps(json_data) ==
    IF validate_gps(json_data.latitude, json_data.longitude) = "True"
    THEN <<Arg("Keys:GPSCoordinates", <<json_data.latitude.v, json_data.longitude.v>>, <<", ">>)>>
    ELSE <<>>

build_exiftool_cmd_video(json_data) ==
    IF validate_gps(json_data.latitude, json_data.longitude) = "raise"
    THEN [r |-> "raise", cmd |-> <<>>]
    ELSE [r |-> "ok",
          cmd |-> CmdHead \o VideoDate(json_data) \o VideoGps(json_data)
                  \o Description("Description", json_data) \o CmdPath]

ImageDate(json_data) ==
    IF validate_timestamp(json_data.timestamp)
    THEN LET date_str == DateValue(unix_to_exif_date(json_data.timestamp))
         IN  <<Arg("DateCreated", date_str, <<>>), Arg("XMP:DateCreated", date_str, <<>>)>>
    ELSE <<>>

\* the image builder with the GPS block of the video builder
build_exiftool_cmd_image_with_gps(json_data) ==
    [r |-> "ok",
     cmd |-> CmdHead \o ImageDate(json_data) \o VideoGps(json_data)
             \o Description("Description", json_data) \o CmdPath]

build_exiftool_cmd_image(json_data) ==
    [r |-> "ok",
     cmd |-> CmdHead \o ImageDate(json_data) \o Description("Description", json_data) \o CmdPath]

(***************************************************************************)
(* process_file                                                            *)
(***************************************************************************)
\* A media file is [ext, exists, is_file, writable, encodable, empty]
should_skip_file(file) ==
    IF file.ext \in SKIP_EXTENSIONS THEN [skip |-> TRUE, reason |-> "RAW/LRV format"]
    ELSE IF file.ext \notin ALL_MEDIA_EXTENSIONS THEN [skip |-> TRUE, reason |-> "Unsupported extension"]
    ELSE IF ~file.exists THEN [skip |-> TRUE, reason |-> "File not found"]
    ELSE IF ~file.is_file THEN [skip |-> TRUE, reason |-> "Not a file"]
    ELSE IF ~file.writable THEN [skip |-> TRUE, reason |-> "Read-only file"]
    ELSE IF ~file.encodable THEN [skip |-> TRUE, reason |-> "Unicode encoding issue"]
    ELSE [skip |-> FALSE, reason |-> ""]

get_file_type(file) ==
    IF file.ext \in PHOTO_EXTENSIONS THEN "photo"
    ELSE IF file.ext \in VIDEO_EXTENSIONS THEN "video"
    ELSE IF file.ext \in IMAGE_EXTENSIONS THEN "image"
    ELSE "unknown"

\* lines 521-523 left out: the timestamp stays as the sidecar gave it
NormalizeTimestampKept(json_data) == json_data

\* lines 521-523: an invalid timestamp becomes None
NormalizeTimestamp(json_data) ==
    IF validate_timestamp(json_data.timestamp) THEN json_data
    ELSE [json_data EXCEPT !.timestamp = JNone]

\* lines 525-533: after validate_gps returned False, out-of-range
\* coordinates are logged as an error entry
InvalidGpsLog(json_data) ==
    LET lat == json_data.latitude
        lon == json_data.longitude
    IN  IF validate_gps(lat, lon) = "False" /\ ~(IsZero(lat) /\ IsZero(lon))
        THEN <<"Invalid GPS coordinates">> ELSE <<>>

\* the already-complete check without 'both_missing' in its GPS list
AlreadyCompleteNeedsGps(date_status, gps_status) ==
    /\ date_status \in {"equal", "json_missing"}
    /\ gps_status \in {"equal", "json_missing"}

\* line 565
AlreadyComplete(date_status, gps_status) ==
    /\ date_status \in {"equal", "json_missing"}
    /\ gps_status \in {"equal", "json_missing", "both_missing"}

\* lines 570-577
BuildCmd(file_type, json_data) ==
    CASE file_type = "photo" -> build_exiftool_cmd_photo(json_data)
      [] file_type = "video" -> build_exiftool_cmd_video(json_data)
      [] file_type = "image" -> build_exiftool_cmd_image(json_data)
      [] OTHER -> [r |-> "unknown", cmd |-> <<>>]

NoLog == [errors |-> <<>>, conflicts |-> <<>>, skipped |-> <<>>]

\* What one call of process_file did: ret is its return value ("raise": an
\* exception left it), counter the statistic it incremented besides
\* total_files, also the statistic it incremented after that one, log the
\* entries it appended, calls the external commands it ran in order, run the
\* result of the tag-writing command
Outcome(ret, counter, log, json_data, conflicts, date_status, gps_status, cmd, calls, run) ==
    [ret |-> ret, counter |-> counter, log |-> log, json_data |-> json_data,
     conflicts |-> conflicts, date_status |-> date_status, gps_status |-> gps_status,
     cmd |-> cmd, calls |-> calls, run |-> run, also |-> "none"]

NoData == [timestamp |-> JNone, latitude |-> CNum(0), longitude |-> CNum(0),
           altitude |-> CNum(0), people |-> <<>>, favorited |-> FALSE, description |-> <<>>]

Early(ret, counter, log, calls) ==
    Outcome(ret, counter, log, NoData, <<>>, "", "", <<>>, calls, "none")

\* Execute without the dry-run branch: the flag is ignored
ExecuteIgnoringDryRun(dry_run, backup_dir, json_data, run) ==
    LET backup == IF backup_dir THEN <<"backup_exif">> ELSE <<>>
        ok == run = "rc0"
    IN  [ret |-> IF ok THEN "True" ELSE "False",
         counter |-> IF ok THEN "processed_success" ELSE "errors",
         errors |-> IF ok THEN <<>> ELSE <<"exiftool failed">>,
         calls |-> backup \o <<"exiftool_write">>
                   \o (IF ok /\ validate_timestamp(json_data.timestamp)
                       THEN <<"update_filesystem_date">> ELSE <<>>),
         run |-> run, also |-> "none"]

\* Execute updating the filesystem date whatever the tag-writing command
\* returned
ExecuteDateAfterAnyResult(dry_run, backup_dir, json_data, run) ==
    IF dry_run
    THEN [ret |-> "True", counter |-> "processed_success", errors |-> <<>>,
          calls |-> <<>>, run |-> "none", also |-> "none"]
    ELSE LET backup == IF backup_dir THEN <<"backup_exif">> ELSE <<>>
             ok == run = "rc0"
         IN  [ret |-> IF ok THEN "True" ELSE "False",
              counter |-> IF ok THEN "processed_success" ELSE "errors",
              errors |-> IF ok THEN <<>> ELSE <<"exiftool failed">>,
              calls |-> backup \o <<"exiftool_write">>
                        \o (IF validate_timestamp(json_data.timestamp)
                            THEN <<"update_filesystem_date">> ELSE <<>>),
              run |-> run, also |-> "none"]

\* lines 579-654: the dry-run branch, or the backup, the tag-writing command
\* and the filesystem date. run is what happens in the try block: the command
\* returns 0 ("rc0") or another code ("rc1"), runs out of time ("timeout") or
\* subprocess.run raises ("exception"), or the command returns 0 and the
\* print of line 638, after processed_success was incremented, raises
\* ("rc0_print_raises": standard output is a closed pipe or a full disk), which
\* the handler of line 648 counts as an error
Execute(dry_run, backup_dir, json_data, run) ==
    IF dry_run
    THEN [ret |-> "True", counter |-> "processed_success", errors |-> <<>>,
          calls |-> <<>>, run |-> "none", also |-> "none"]
    ELSE LET backup == IF backup_dir THEN <<"backup_exif">> ELSE <<>>
         IN  CASE run = "rc0" ->
                    [ret |-> "True", counter |-> "processed_success", errors |-> <<>>,
                     calls |-> backup \o <<"exiftool_write">>
                               \o (IF validate_timestamp(json_data.timestamp)
                                   THEN <<"update_filesystem_date">> ELSE <<>>),
                     run |-> run, also |-> "none"]
               [] run = "rc0_print_raises" ->
                    [ret |-> "False", counter |-> "processed_success", errors |-> <<"exception">>,
                     calls |-> backup \o <<"exiftool_write">>
                               \o (IF validate_timestamp(json_data.timestamp)
                                   THEN <<"update_filesystem_date">> ELSE <<>>),
                     run |-> "rc0", also |-> "errors"]
               [] run = "rc1" ->
                    [ret |-> "False", counter |-> "errors", errors |-> <<"exiftool failed">>,
                     calls |-> backup \o <<"exiftool_write">>, run |-> run, also |-> "none"]
               [] run = "timeout" ->
                    [ret |-> "False", counter |-> "errors", errors |-> <<"exiftool timeout (>60s)">>,
                     calls |-> backup \o <<"exiftool_write">>, run |-> run, also |-> "none"]
               [] OTHER ->
                    [ret |-> "False", counter |-> "errors", errors |-> <<"exception">>,
                     calls |-> backup \o <<"exiftool_write">>, run |-> run, also |-> "none"]

\* lines 548-577, after the tags were read
Reconcile(file, exif_data, json_data, gps_log, dry_run, backup_dir, run) ==
    LET file_type == get_file_type(file)
        found == detect_conflicts(exif_data, json_data, file_type)
        exif_date == parse_exif_date(exif_data, file_type)
        exif_gps == parse_exif_gps(exif_data)
        date_status == compare_dates(exif_date, json_data.timestamp)
        gps_status == compare_gps(exif_gps, json_data.latitude, json_data.longitude)
        built == BuildCmd(file_type, json_data)
        log == [NoLog EXCEPT !.errors = gps_log]
        read == <<"extract_exif">>
    IN  IF found.r = "raise"
        THEN Outcome("raise", "none", log, json_data, <<>>, "", "", <<>>, read, "none")
        ELSE IF found.conflicts # <<>>
        THEN Outcome("False", "conflicts", [log EXCEPT !.conflicts = found.conflicts],
                     json_data, found.conflicts, "", "", <<>>, read, "none")
        ELSE IF date_status = "raise" \/ gps_status = "raise"
        THEN Outcome("raise", "none", log, json_data, <<>>, date_status, gps_status,
                     <<>>, read, "none")
        ELSE IF AlreadyComplete(date_status, gps_status)
        THEN Outcome("False", "already_complete", log, json_data, <<>>,
                     date_status, gps_status, <<>>, read, "none")
        ELSE IF built.r = "raise"
        THEN Outcome("raise", "none", log, json_data, <<>>, date_status, gps_status,
                     <<>>, read, "none")
        ELSE IF built.r = "unknown"
        THEN Outcome("False", "none", log, json_data, <<>>, date_status, gps_status,
                     <<>>, read, "none")
        ELSE LET e == Execute(dry_run, backup_dir, json_data, run)
             IN  [Outcome(e.ret, e.counter, [log EXCEPT !.errors = gps_log \o e.errors],
                          json_data, <<>>, date_status, gps_status, built.cmd,
                          read \o e.calls, e.run)
                      EXCEPT !.also = e.also]

\* An asset is [file, has_json, doc, tags]; exiftool_ok and run are the
\* results of the two exiftool commands, used where the call reaches them
process_file(asset, dry_run, backup_dir, exiftool_ok, run) ==
    LET skip == should_skip_file(asset.file)
        parsed == parse_json_metadata(asset.doc)
        json_data == NormalizeTimestamp(parsed.data)
        gps_ok == validate_gps(json_data.latitude, json_data.longitude)
        gps_log == InvalidGpsLog(json_data)
        exif_data == extract_exif(asset.tags, exiftool_ok)
    IN  IF skip.skip
        THEN Early("False", "skipped", [NoLog EXCEPT !.skipped = <<skip.reason>>], <<>>)
        ELSE IF ~asset.has_json
        THEN Early("False", "no_json", NoLog, <<>>)
        ELSE IF parsed.r = "raise"
        THEN Early("raise", "none", NoLog, <<>>)
        ELSE IF parsed.r = "none"
        THEN Early("False", "errors", [NoLog EXCEPT !.errors = <<"Invalid JSON">>], <<>>)
        ELSE IF validate_timestamp_overflows(parsed.data.timestamp)
        THEN Early("raise", "none", NoLog, <<>>)
        ELSE IF gps_ok = "raise"
        THEN Outcome("raise", "none", NoLog, json_data, <<>>, "", "", <<>>, <<>>, "none")
        ELSE IF ~exif_data.ok /\ ~asset.file.empty
        THEN Outcome("False", "errors",
                     [NoLog EXCEPT !.errors = gps_log \o <<"Could not read EXIF (corrupted?)">>],
                     json_data, <<>>, "", "", <<>>, <<"extract_exif">>, "none")
        ELSE Reconcile(asset.file, exif_data, json_data, gps_log, dry_run, backup_dir, run)

(***************************************************************************)
(* The inputs: media files, their sidecars and their embedded tags         *)
(***************************************************************************)
\* the longest list of media files main() is given
MaxFiles == 2

File(ext) == [ext |-> ext, exists |-> TRUE, is_file |-> TRUE, writable |-> TRUE,
              encodable |-> TRUE, empty |-> FALSE]

MediaFiles == {File(".jpg"), File(".mp4"), File(".png")}

SkippedFiles ==
    {File(".cr2"), File(".txt"),
     [File(".jpg") EXCEPT !.exists = FALSE], [File(".mp4") EXCEPT !.is_file = FALSE],
     [File(".png") EXCEPT !.writable = FALSE], [File(".jpg") EXCEPT !.encodable = FALSE]}

\* 1700000000 = 2023:11:14 22:13:20 UTC
T0 == W(19675, 80000)

Timestamps == {JNone, JInt(T0.d, T0.s), JStr(T0.d, T0.s), JInt(TS_LIMIT_DAYS, 0)}

\* (latitude, longitude) of the sidecar: none, 40.0/-73.9, -40.0/73.9,
\* latitude out of range, and values that are no numbers
Coordinates ==
    {<<Missing, Missing>>, <<CNum(40 * Deg), CNum(-6651000)>>,
     <<CNum(-40 * Deg), CNum(6651000)>>, <<CNum(100 * Deg), CNum(-6651000)>>,
     <<CNull, CNum(-6651000)>>, <<CNum(0), CNull>>, <<CNum(100 * Deg), CStr>>}

Altitudes == {Missing, CNum(-125), CNull}

Peoples == {<<>>, <<[name |-> ""]>>, <<[name |-> "Ann"], [name |-> ""], [name |-> "Bob"]>>}

Descriptions == {<<>>, <<" ", "\n">>, <<" ", "h", "i", " ">>}

Doc(top, ts, ll, alt, people, favorited, description) ==
    [top |-> top, timestamp |-> ts, latitude |-> ll[1], longitude |-> ll[2],
     altitude |-> alt, people |-> people, favorited |-> favorited,
     description |-> description]

PlainDoc(ts, ll) == Doc("object", ts, ll, Missing, <<>>, FALSE, <<>>)

\* the sidecar instant, 6 hours later, 30 hours later, and the all-zero date
DateSame == XDate(Civil(2023, 11, 14, 22, 13, 20))
DateNear == XDateTail(Civil(2023, 11, 15, 4, 13, 20))
DateFar == XDate(Civil(2023, 11, 16, 4, 13, 20))
DateZero == XDate(ZeroCivil)

\* the dictionary of the tags given that are not absent
Dates(dto, create, media, created) ==
    LET all == [n \in {"DateTimeOriginal", "CreateDate", "MediaCreateDate", "DateCreated"} |->
                  CASE n = "DateTimeOriginal" -> dto
                    [] n = "CreateDate" -> create
                    [] n = "MediaCreateDate" -> media
                    [] OTHER -> created]
    IN  Restrict(all, {n \in DOMAIN all : all[n].t # "absent"})

DateTags ==
    {NoDates,
     Dates(DateSame, DateSame, XAbsent, XAbsent),
     Dates(XEmpty, DateFar, DateNear, XAbsent),
     Dates(XAbsent, XAbsent, DateNear, DateFar),
     Dates(DateZero, DateZero, XAbsent, XAbsent),
     Dates(XNum, XNum, XAbsent, XAbsent)}

\* (GPSLatitude, GPSLongitude) of the file: none, 40 N / 73 54' W, a pair
\* elsewhere, a latitude text that is no DMS, a lone latitude
GpsTags ==
    {<<GAbsent, GAbsent>>,
     <<GDms(40, 0, 0, "N"), GDms(73, 54, 0, "W")>>,
     <<GDms(41, 4, 771, "S"), GDms(73, 54, 0, "W")>>,
     <<GBadStr, GDms(73, 54, 0, "W")>>,
     <<GDms(40, 0, 0, "N"), GAbsent>>}

Tags(dates, gps) == [dates |-> dates, lat |-> gps[1], lon |-> gps[2]]

NoTags == Tags(NoDates, <<GAbsent, GAbsent>>)

Asset(file, has_json, doc, tags) ==
    [file |-> file, has_json |-> has_json, doc |-> doc, tags |-> tags]

NoDoc == PlainDoc(JNone, <<Missing, Missing>>)

\* files with every combination of comparator inputs and a bare sidecar
ComparedAssets ==
    {Asset(f, TRUE, PlainDoc(ts, ll), Tags(d, g)) :
        f \in MediaFiles, ts \in Timestamps, ll \in Coordinates, d \in DateTags, g \in GpsTags}

\* files without tags, with every combination of the other sidecar fields
DescribedAssets ==
    {Asset(f, TRUE, Doc("object", ts, ll, alt, pp, fav, de), NoTags) :
        f \in MediaFiles, ts \in {JNone, JInt(T0.d, T0.s)},
        ll \in {<<Missing, Missing>>, <<CNum(40 * Deg), CNum(-6651000)>>,
                <<CNum(-40 * Deg), CNum(6651000)>>},
        alt \in Altitudes, pp \in Peoples, fav \in BOOLEAN, de \in Descriptions}

\* files that are skipped, have no sidecar, a sidecar that is no JSON
\* object, or an infinite timestamp; and empty files
OddAssets ==
    {Asset(f, TRUE, NoDoc, NoTags) : f \in SkippedFiles}
    \cup {Asset(f, FALSE, NoDoc, NoTags) : f \in MediaFiles}
    \cup {Asset(f, TRUE, [NoDoc EXCEPT !.top = top], NoTags) :
            f \in MediaFiles, top \in {"invalid", "unreadable", "array"}}
    \cup {Asset(f, TRUE, PlainDoc(JInf, <<Missing, Missing>>), NoTags) : f \in MediaFiles}
    \cup {Asset([f EXCEPT !.empty = TRUE], TRUE, PlainDoc(ts, ll), NoTags) :
            f \in MediaFiles, ts \in {JNone, JInt(T0.d, T0.s)},
            ll \in {<<Missing, Missing>>, <<CNum(40 * Deg), CNum(-6651000)>>}}

Assets == ComparedAssets \cup DescribedAssets \cup OddAssets

RunResults == {"rc0", "rc0_print_raises", "rc1", "timeout", "exception"}

\* The calls of process_file the loop can make in one mode: on each asset,
\* with exiftool reading the tags or failing to, and with each result of the
\* tag-writing command (equal outcomes, of calls that do not get that far,
\* are one call)
CallsIn(dry) ==
    {[asset |-> a, out |-> process_file(a, dry, TRUE, ok, run)] :
        a \in Assets, ok \in BOOLEAN, run \in RunResults}

DryCalls == CallsIn(TRUE)

RealCalls == CallsIn(FALSE)

(***************************************************************************)
(* The program: main() and its loop over the media files                   *)
(***************************************************************************)
VARIABLES
    pc,         \* "start", "loop", "returned", "crashed", "exit", "done"
    args,       \* the parsed command line: args.dry_run
    stats,      \* ProcessingStats
    logs,       \* the length of logs['conflicts'], ['errors'], ['skipped']
    cur,        \* the file process_file was last called on
    out         \* what that call did

vars == <<pc, args, stats, logs, cur, out>>

NoAsset == Asset(File(""), FALSE, NoDoc, NoTags)

NoOutcome == Early("", "none", NoLog, <<>>)

Counters == {"processed_success", "already_complete", "conflicts", "errors", "no_json", "skipped"}

Init ==
    /\ pc = "start"
    /\ args \in [dry_run : BOOLEAN]
    /\ stats = [c \in Counters \cup {"total_files"} |-> 0]
    /\ logs = [conflicts |-> 0, errors |-> 0, skipped |-> 0]
    /\ cur = NoAsset
    /\ out = NoOutcome

\* lines 844-857: real mode asks for a 'yes' unless --no-confirm
Confirm ==
    /\ pc = "start"
    /\ \E no_confirm \in BOOLEAN, response \in {"yes", "no"} :
          pc' = IF args.dry_run \/ no_confirm \/ response = "yes" THEN "loop" ELSE "exit"
    /\ UNCHANGED <<args, stats, logs, cur, out>>

Count(st, o) ==
    [c \in DOMAIN st |->
        IF c = "total_files" \/ c = o.counter \/ c = o.also THEN st[c] + 1 ELSE st[c]]

Append3(lg, o) ==
    [conflicts |-> lg.conflicts + Len(o.log.conflicts),
     errors |-> lg.errors + Len(o.log.errors),
     skipped |-> lg.skipped + Len(o.log.skipped)]

Range(seq) == {seq[i] : i \in 1..Len(seq)}

\* lines 859-860: one iteration, process_file on the next media file; an
\* exception that leaves process_file ends the program
ProcessFile ==
    /\ pc = "loop"
    /\ stats.total_files < MaxFiles
    /\ \E call \in (IF args.dry_run THEN DryCalls ELSE RealCalls) :
          /\ cur' = call.asset
          /\ out' = call.out
          /\ stats' = Count(stats, call.out)
          /\ logs' = Append3(logs, call.out)
          /\ pc' = IF call.out.ret = "raise" THEN "crashed" ELSE "returned"
    /\ UNCHANGED args

\* the loop takes the next file: the locals of the last call are gone
NextFile ==
    /\ pc = "returned"
    /\ pc' = "loop"
    /\ cur' = NoAsset
    /\ out' = NoOutcome
    /\ UNCHANGED <<args, stats, logs>>

\* lines 862-868: the list is exhausted (it holds at least one file)
Finish ==
    /\ pc = "loop"
    /\ stats.total_files >= 1
    /\ pc' = "done"
    /\ UNCHANGED <<args, stats, logs, cur, out>>

Next == Confirm \/ ProcessFile \/ NextFile \/ Finish

Spec == Init /\ [][Next]_vars

(***************************************************************************)
(* The date comparison of process_file on its own: lines 521-523 and 560   *)
(* applied to one extracted date and one sidecar timestamp. cur holds the  *)
(* two inputs and out the status.                                          *)
(***************************************************************************)
\* the instant k seconds after w
WAdd(w, k) == W(w.d + (w.s + k) \div SecondsPerDay, (w.s + k) % SecondsPerDay)

\* the sidecar timestamps: none, 0, 1, -1, 1700000000 as an integer, a text
\* and a float, 0.5, the last valid second, the limit, a later instant,
\* texts and values int() rejects, NaN and an infinite float
DateTimestamps ==
    {JNone, JInt(0, 0), JInt(0, 1), JInt(-1, SecondsPerDay - 1),
     JInt(T0.d, T0.s), JStr(T0.d, T0.s), JFloat(T0.d, T0.s, 5), JFloat(0, 0, 5),
     JInt(TS_LIMIT_DAYS - 1, SecondsPerDay - 1), JInt(TS_LIMIT_DAYS, 0),
     JInt(TS_LIMIT_DAYS + 1, 5), JBadStr, JOther, JNan, JInf}

\* seconds between the extracted date and the sidecar instant
Offsets ==
    {0, 1, -1, 89999, -89999, 90000, -90000, 90001, -90001,
     3 * SecondsPerDay, -3 * SecondsPerDay, 40 * SecondsPerDay}

\* the date tag that reads as the instant k seconds after int(ts), with or
\* without text after its 19 characters
ShiftedDate(ts, k, tail) ==
    LET w == WAdd(IntOf(ts).w, k)
    IN  [t |-> "date", c |-> unix_to_exif_date(JInt(w.d, w.s)), tail |-> tail]

\* what parse_exif_date can return besides: None, a text that is no date,
\* the all-zero date, a number
OddDates == {XAbsent, XGarbage, DateZero, XNum}

DateInputs ==
    {[exif_date |-> ShiftedDate(ts, k, tail), json_timestamp |-> ts, shifted |-> TRUE, shift |-> k] :
        ts \in DateTimestamps, k \in Offsets, tail \in BOOLEAN}
    \cup {[exif_date |-> x, json_timestamp |-> ts, shifted |-> FALSE, shift |-> 0] :
            x \in OddDates, ts \in DateTimestamps}

\* lines 521-523 and 560: the timestamp is validated, replaced by None when
\* invalid, and compared with the extracted date
DateStatus(exif_date, timestamp) ==
    IF validate_timestamp_overflows(timestamp) THEN "raise"
    ELSE compare_dates(exif_date, NormalizeTimestamp([timestamp |-> timestamp]).timestamp)

DatesInit ==
    /\ pc = "input"
    /\ args = [dry_run |-> TRUE]
    /\ stats = [c \in Counters \cup {"total_files"} |-> 0]
    /\ logs = [conflicts |-> 0, errors |-> 0, skipped |-> 0]
    /\ cur \in DateInputs
    /\ out = ""

CompareDates ==
    /\ pc = "input"
    /\ pc' = "compare_dates"
    /\ out' = DateStatus(cur.exif_date, cur.json_timestamp)
    /\ UNCHANGED <<args, stats, logs, cur>>

DatesNext == CompareDates

DatesSpec == DatesInit /\ [][DatesNext]_vars

(***************************************************************************)
(* The GPS comparison of process_file on its own: lines 558 and 561-562    *)
(* applied to the two GPS tags of a file and the coordinates of a sidecar  *)
(* (numbers: line 527 raises on anything else). cur holds the inputs, out  *)
(* the extracted pair and the status.                                      *)
(***************************************************************************)
\* GPSLatitude: none, the numbers 0, 40 and 100, the texts for 40 N, 0 N,
\* 40 0' 0.36" N and 95 N, a text whose seconds are no number and a text
\* the pattern does not match
LatTags ==
    {GAbsent, GNum(0), GNum(40 * Deg), GNum(100 * Deg),
     GDms(40, 0, 0, "N"), GDms(0, 0, 0, "N"), GDms(40, 0, 9, "N"), GDms(95, 0, 0, "N"),
     GDmsBadSec, GBadStr}

\* GPSLongitude: none, the numbers 0 and -73.9, the texts for 73 54' W, 0 E
\* and 200 W, and a text the pattern does not match
LonTags ==
    {GAbsent, GNum(0), GNum(-6651000),
     GDms(73, 54, 0, "W"), GDms(0, 0, 0, "E"), GDms(200, 0, 0, "W"), GBadStr}

\* the coordinates of the sidecar: (0, 0), (40, -73.9), (0, -73.9),
\* (-40, 73.9), (100, -73.9), (40, 200)
JsonCoordinates ==
    {<<CNum(0), CNum(0)>>, <<CNum(40 * Deg), CNum(-6651000)>>, <<CNum(0), CNum(-6651000)>>,
     <<CNum(-40 * Deg), CNum(6651000)>>, <<CNum(100 * Deg), CNum(-6651000)>>,
     <<CNum(40 * Deg), CNum(200 * Deg)>>}

GpsInputs ==
    {[lat |-> lat, lon |-> lon, json_lat |-> ll[1], json_lon |-> ll[2]] :
        lat \in LatTags, lon \in LonTags, ll \in JsonCoordinates}

GpsInit ==
    /\ pc = "input"
    /\ args = [dry_run |-> TRUE]
    /\ stats = [c \in Counters \cup {"total_files"} |-> 0]
    /\ logs = [conflicts |-> 0, errors |-> 0, skipped |-> 0]
    /\ cur \in GpsInputs
    /\ out = [exif_gps |-> NoGps, status |-> ""]

CompareGps ==
    /\ pc = "input"
    /\ pc' = "compare_gps"
    /\ LET exif_gps == parse_exif_gps(cur)
       IN  out' = [exif_gps |-> exif_gps,
                   status |-> compare_gps(exif_gps, cur.json_lat, cur.json_lon)]
    /\ UNCHANGED <<args, stats, logs, cur>>

GpsNext == CompareGps

GpsSpec == GpsInit /\ [][GpsNext]_vars

(***************************************************************************)
(* The timestamp check of process_file on its own: lines 521-523 applied   *)
(* to the timestamp of a sidecar. cur holds the timestamp, out the result  *)
(* of validate_timestamp and the timestamp process_file goes on with.      *)
(***************************************************************************)
\* days around the epoch, a day of 2023, and the days around the limit
TimestampDays == {-1, 0, 1, T0.d, TS_LIMIT_DAYS - 1, TS_LIMIT_DAYS, TS_LIMIT_DAYS + 1}

TimestampSeconds == {0, 1, SecondsPerDay - 1}

\* integers, texts of integers, floats with fraction .0 and .5, and the
\* values int() does not convert
TimestampInputs ==
    {JInt(d, s) : d \in TimestampDays, s \in TimestampSeconds}
        \cup {JStr(d, s) : d \in TimestampDays, s \in TimestampSeconds}
        \cup {JFloat(d, s, f) : d \in TimestampDays, s \in TimestampSeconds, f \in {0, 5}}
        \cup {JNone, JBadStr, JOther, JNan, JInf}

NoCheck == [r |-> "", timestamp |-> JNone]

TimestampInit ==
    /\ pc = "input"
    /\ args = [dry_run |-> TRUE]
    /\ stats = [c \in Counters \cup {"total_files"} |-> 0]
    /\ logs = [conflicts |-> 0, errors |-> 0, skipped |-> 0]
    /\ cur \in {[timestamp |-> ts] : ts \in TimestampInputs}
    /\ out = NoCheck

ValidateTimestamp ==
    /\ pc = "input"
    /\ pc' = "validate_timestamp"
    /\ out' = IF validate_timestamp_overflows(cur.timestamp)
              THEN [r |-> "raise", timestamp |-> cur.timestamp]
              ELSE [r |-> IF validate_timestamp(cur.timestamp) THEN "True" ELSE "False",
                    timestamp |-> NormalizeTimestamp(cur).timestamp]
    /\ UNCHANGED <<args, stats, logs, cur>>

TimestampNext == ValidateTimestamp

TimestampSpec == TimestampInit /\ [][TimestampNext]_vars

(***************************************************************************)
(* Properties of process_file and of the batch                             *)
(***************************************************************************)
\* process_file has been called on cur and out is what it did
Returned == pc \in {"returned", "crashed"}

\* the calls that change a media file or write a backup of its tags
Writes == {"backup_exif", "exiftool_write", "update_filesystem_date"}

DateTagNames == {"DateTimeOriginal", "CreateDate", "MediaCreateDate", "TrackCreateDate",
                 "DateCreated", "XMP:DateCreated"}

GpsTagNames == {"GPSLatitude", "GPSLatitudeRef", "GPSLongitude", "GPSLongitudeRef",
                "GPSAltitude", "GPSAltitudeRef", "GPSPosition", "Keys:GPSCoordinates"}

\* the tag names of the assignments of a command
PlanTags(cmd) == {Plan(cmd)[i].tag : i \in 1..Len(Plan(cmd))}

CurType == get_file_type(cur.file)

\* C1: when a conflict is reported for an asset (a comparator said
\* 'different'), no write command is built for it, and neither the backup,
\* the tag-writing command nor the filesystem date update runs
C1_ConflictVetoesEveryWrite ==
    Returned /\ (out.conflicts # <<>> \/ "different" \in {out.date_status, out.gps_status})
        => /\ out.cmd = <<>>
           /\ Range(out.calls) \cap Writes = {}
           /\ out.counter = "conflicts"

\* in real mode, only the GPS differs while the file has no date and the
\* sidecar has a valid one
C1_Witness ==
    /\ pc = "returned" /\ ~args.dry_run
    /\ out.conflicts = <<[field |-> "GPS"]>>
    /\ validate_timestamp(cur.doc.timestamp)
    /\ parse_exif_date(extract_exif(cur.tags, TRUE), CurType) = XAbsent

\* C2: a built plan holds a date assignment only if the date comparator was
\* not 'equal', and a GPS assignment only if the GPS comparator was not
\* 'equal'
C2_PlanSkipsEqualFields ==
    Returned /\ out.cmd # <<>>
        => /\ out.date_status = "equal" => PlanTags(out.cmd) \cap DateTagNames = {}
           /\ out.gps_status = "equal" => PlanTags(out.cmd) \cap GpsTagNames = {}

\* C3: a built command holds at least one field assignment
C3_BuiltPlanIsNotEmpty ==
    Returned /\ out.cmd # <<>> => Plan(out.cmd) # <<>>

\* C4: once both comparators gave a result without a conflict, the asset is
\* counted already complete, with no plan, exactly when the date result is
\* equal or json_missing and the GPS result is equal, json_missing or
\* both_missing; for every other pair the command builder runs
C4_CompleteExactlyOnTheListedPairs ==
    Returned /\ out.date_status \notin {"", "raise"} /\ out.gps_status \notin {"", "raise"}
        => IF /\ out.date_status \in {"equal", "json_missing"}
              /\ out.gps_status \in {"equal", "json_missing", "both_missing"}
           THEN out.counter = "already_complete" /\ out.cmd = <<>> /\ out.ret = "False"
           ELSE out.counter # "already_complete" /\ (out.cmd # <<>> \/ out.ret = "raise")

\* the file has a date the sidecar lacks and neither side has coordinates
C4_Witness ==
    /\ pc = "returned"
    /\ out.date_status = "json_missing" /\ out.gps_status = "both_missing"
    /\ out.counter = "already_complete"

\* C5: no asset halts the batch: process_file returns on every asset and
\* the loop goes on to the next file
C5_NoAssetHaltsTheBatch ==
    pc # "crashed" /\ (Returned => out.ret \in {"True", "False"})

\* a sidecar was found for a file that is not skipped, and it is no JSON
\* or cannot be read
Malformed ==
    /\ Returned /\ ~should_skip_file(cur.file).skip /\ cur.has_json
    /\ cur.doc.top \in {"invalid", "unreadable"}

C7_DryRunWritesNothing ==
    args.dry_run /\ Returned => Range(out.calls) \cap Writes = {}

\* a dry run that built a command and counted the file as processed
C7_Witness ==
    /\ args.dry_run /\ pc = "returned"
    /\ out.cmd # <<>> /\ out.counter = "processed_success"
    /\ stats.total_files = 2

\* C8: update_filesystem_date is called only after the tag-writing command
\* ran on the same file and returned 0, on a file counted as processed
C8_FilesystemDateOnlyAfterSuccessfulWrite ==
    Returned /\ "update_filesystem_date" \in Range(out.calls)
        => /\ ~args.dry_run
           /\ out.run = "rc0"
           /\ out.counter = "processed_success" /\ out.conflicts = <<>>
           /\ \E i, j \in 1..Len(out.calls) :
                 /\ i < j
                 /\ out.calls[i] = "exiftool_write"
                 /\ out.calls[j] = "update_filesystem_date"
                 /\ \A k \in 1..Len(out.calls) : out.calls[k] = "update_filesystem_date" => k = j

\* a real run whose tag-writing command succeeded on a dated sidecar
C8_Witness ==
    /\ ~args.dry_run /\ pc = "returned"
    /\ out.calls = <<"extract_exif", "backup_exif", "exiftool_write", "update_filesystem_date">>

\* C9: the plan of an image never holds a GPS assignment
C9_ImagePlanHasNoGps ==
    Returned /\ CurType = "image" => PlanTags(out.cmd) \cap GpsTagNames = {}

\* an image without coordinates whose sidecar has valid ones
C9_Witness ==
    /\ pc = "returned" /\ CurType = "image"
    /\ out.gps_status = "exif_missing"
    /\ validate_gps(out.json_data.latitude, out.json_data.longitude) = "True"
    /\ Plan(out.cmd) # <<>>

\* the tags of a photo plan, in the order the builder appends them
PhotoOrder ==
    <<"DateTimeOriginal", "CreateDate",
      "GPSLatitude", "GPSLatitudeRef", "GPSLongitude", "GPSLongitudeRef",
      "GPSAltitude", "GPSAltitudeRef",
      "IPTC:Keywords", "XMP:Rating", "IPTC:Caption-Abstract">>

Place(tag) == CHOOSE i \in 1..Len(PhotoOrder) : PhotoOrder[i] = tag

Has(plan, tag) == \E i \in 1..Len(plan) : plan[i].tag = tag

The(plan, tag) == plan[CHOOSE i \in 1..Len(plan) : plan[i].tag = tag]

\* C10: the plan of a photo holds, in this order and each at most once: the
\* two date tags with the sidecar instant iff the timestamp is valid; the
\* six GPS tags iff the coordinates are valid, with |lat| and South (lat < 0)
\* or North, |lon| and West (lon < 0) or East, |altitude| and 'Above Sea
\* Level'; the non-empty names joined by commas iff there is one; rating 5
\* iff favorited; the trimmed description iff it is not blank
C10_PhotoPlanOrderAndContent ==
    Returned /\ CurType = "photo" /\ out.cmd # <<>> =>
        LET plan == Plan(out.cmd)
            json == out.json_data
            lat == json.latitude.v
            lon == json.longitude.v
            dated == validate_timestamp(json.timestamp)
            located == validate_gps(json.latitude, json.longitude) = "True"
            named == SelectSeq(json.people, LAMBDA q : q.name # "")
            words == The(plan, "IPTC:Keywords").s
            blank == \A i \in 1..Len(json.description) : json.description[i] \in Whitespace
        IN  /\ \A i \in 1..Len(plan) : plan[i].tag \in Range(PhotoOrder)
            /\ \A i, k \in 1..Len(plan) : i < k => Place(plan[i].tag) < Place(plan[k].tag)
            /\ \A t \in {"DateTimeOriginal", "CreateDate"} :
                  /\ Has(plan, t) <=> dated
                  /\ dated => The(plan, t) = Arg(t, DateValue(unix_to_exif_date(json.timestamp)), <<>>)
            /\ \A t \in {"GPSLatitude", "GPSLatitudeRef", "GPSLongitude", "GPSLongitudeRef",
                         "GPSAltitude", "GPSAltitudeRef"} : Has(plan, t) <=> located
            /\ located =>
                  /\ The(plan, "GPSLatitude") = Arg("GPSLatitude", <<Abs(lat)>>, <<>>)
                  /\ The(plan, "GPSLatitudeRef").s = <<IF lat < 0 THEN "South" ELSE "North">>
                  /\ The(plan, "GPSLongitude") = Arg("GPSLongitude", <<Abs(lon)>>, <<>>)
                  /\ The(plan, "GPSLongitudeRef").s = <<IF lon < 0 THEN "West" ELSE "East">>
                  /\ The(plan, "GPSAltitude") = Arg("GPSAltitude", <<Abs(json.altitude.v)>>, <<>>)
                  /\ The(plan, "GPSAltitudeRef").s = <<"Above Sea Level">>
            /\ Has(plan, "IPTC:Keywords") <=> named # <<>>
            /\ named # <<>> =>
                  /\ Len(words) = 2 * Len(named) - 1
                  /\ \A i \in 1..Len(named) : words[2 * i - 1] = named[i].name
                  /\ \A i \in 1..(Len(named) - 1) : words[2 * i] = ","
            /\ Has(plan, "XMP:Rating") <=> json.favorited
            /\ json.favorited => The(plan, "XMP:Rating").n = <<5>>
            /\ Has(plan, "IPTC:Caption-Abstract") <=> ~blank
            /\ ~blank => The(plan, "IPTC:Caption-Abstract").s = Strip(json.description)

\* the file has neither date nor GPS; the sidecar has 1700000000 and
\* (40.0, -73.9), two people with a name, a favourite mark and a description
C10_Witness ==
    /\ pc = "returned" /\ CurType = "photo"
    /\ out.date_status = "exif_missing" /\ out.gps_status = "exif_missing"
    /\ LET plan == Plan(out.cmd)
       IN  /\ Len(plan) = 11
           /\ plan[1] = Arg("DateTimeOriginal", <<2023, 11, 14, 22, 13, 20>>, <<>>)
           /\ plan[2] = Arg("CreateDate", <<2023, 11, 14, 22, 13, 20>>, <<>>)
           /\ plan[3].n = <<40 * Deg>> /\ plan[4].s = <<"North">>
           /\ plan[5].n = <<6651000>> /\ plan[6].s = <<"West">>
           /\ plan[9].s = <<"Ann", ",", "Bob">>
           /\ plan[10].tag = "XMP:Rating"
           /\ plan[11].s = <<"h", "i">>

\* C11: a valid sidecar timestamp and an extracted date that parses compare
\* 'equal' exactly when the two instants (the date read as UTC, and
\* int(timestamp) seconds after the epoch) are at most 90000 seconds apart,
\* whichever is the later, and 'different' otherwise
C11_EqualWithin90000Seconds ==
    pc = "compare_dates" /\ cur.shifted /\ validate_timestamp(cur.json_timestamp)
        => out = IF -90000 <= cur.shift /\ cur.shift <= 90000 THEN "equal" ELSE "different"

\* the extracted date is 90000 seconds before the sidecar instant
C11_Witness ==
    /\ pc = "compare_dates" /\ cur.shifted /\ cur.shift = -90000
    /\ cur.json_timestamp = JInt(T0.d, T0.s)
    /\ out = "equal"

\* C12: the date status is both_missing when the extracted date is absent
\* and the sidecar timestamp is absent or invalid, exif_missing when the
\* extracted date is absent and the timestamp valid, json_missing when the
\* extracted date is present and the timestamp absent or invalid; an invalid
\* timestamp is never compared (the status is neither equal nor different)
C12_MissingSidesOfTheDate ==
    pc = "compare_dates" /\ ~validate_timestamp_overflows(cur.json_timestamp) =>
        LET absent == cur.exif_date.t = "absent"
            valid == validate_timestamp(cur.json_timestamp)
        IN  /\ absent /\ ~valid => out = "both_missing"
            /\ absent /\ valid => out = "exif_missing"
            /\ ~absent /\ ~valid => out = "json_missing"
            /\ ~valid => out \notin {"equal", "different", "raise"}

\* the extracted date is the instant of the sidecar, which is 4102444800
C12_Witness ==
    /\ pc = "compare_dates"
    /\ cur.json_timestamp = JInt(TS_LIMIT_DAYS, 0)
    /\ cur.shifted /\ cur.shift = 0
    /\ out = "json_missing"

\* C13: an extracted pair that fails validate_gps (both components 0, or a
\* latitude outside [-90, 90], or a longitude outside [-180, 180]) counts as
\* absent: the status is none of equal, different and json_missing
C13_InvalidExtractedPairIsAbsent ==
    /\ pc = "compare_gps"
    /\ out.exif_gps.has
    /\ validate_gps(CNum(out.exif_gps.lat), CNum(out.exif_gps.lon)) = "False"
    => out.status \notin {"equal", "different", "json_missing"}

\* C14: when the latitude or the longitude tag is missing or is a text the
\* degrees/minutes/seconds pattern does not match, parse_exif_gps returns
\* None, and the GPS status is not 'different'
C14_UnparseableComponentIsAbsent ==
    /\ pc = "compare_gps"
    /\ \/ cur.lat.t \in {"absent", "badstr"}
       \/ cur.lon.t \in {"absent", "badstr"}
    => ~out.exif_gps.has /\ out.status # "different"

\* the timestamp lies strictly between 0 and 4,102,444,800 seconds
InRange(ts) == (ts.d = 0 /\ ts.s >= 1) \/ (1 <= ts.d /\ ts.d <= TS_LIMIT_DAYS - 1)

\* C15 as stated: validate_timestamp is true exactly for an integer t with
\* 0 < t < 4,102,444,800 and false for every other value, 1.5 included
C15_TrueExactlyForIntegersInRange ==
    pc = "validate_timestamp" =>
        LET ts == cur.timestamp
            integer == ts.t = "int" \/ (ts.t = "float" /\ ts.f = 0)
        IN  out.r = "True" <=> integer /\ InRange(ts)

\* C15, amended: validate_timestamp is true exactly when int(t) succeeds
\* (an integer, a text of an integer, or a finite float, which int() cuts
\* toward zero) and 0 < int(t) < 4,102,444,800; it raises for an infinite
\* float and is false otherwise; process_file goes on with the timestamp when
\* it is valid and with None when it is not
C15_TrueExactlyWhenIntOfItIsInRange ==
    pc = "validate_timestamp" =>
        LET ts == cur.timestamp
            valid == ts.t \in {"int", "str", "float"} /\ InRange(ts)
        IN  /\ out.r = "True" <=> valid
            /\ out.r = "raise" <=> ts.t = "inf"
            /\ out.r = "True" => out.timestamp = ts
            /\ out.r = "False" => out.timestamp = JNone

C15_Witness ==
    /\ pc = "validate_timestamp"
    /\ cur.timestamp = JFloat(0, 1, 5)
    /\ out = [r |-> "True", timestamp |-> JFloat(0, 1, 5)]

\* the statistics a call of process_file incremented besides total_files
Incremented == {out.counter, out.also} \cap Counters

\* the sum of the six outcome counters
CounterSum ==
    stats.processed_success + stats.already_complete + stats.conflicts
        + stats.errors + stats.no_json + stats.skipped

\* C16: while every call of process_file returned, total_files is the sum of
\* the six outcome counters; a call that returned incremented exactly one of
\* them, and it returned True exactly when that one is processed_success
C16_EveryCallCountsOnce ==
    /\ pc # "crashed" => stats.total_files = CounterSum
    /\ pc = "returned" =>
          /\ Cardinality(Incremented) = 1
          /\ out.ret = "True" <=> "processed_success" \in Incremented

=============================================================================
